---- MODULE Spec2Model ----
(***************************************************************************)
(* A model of YouChat.py: the YouChat client's configuration validation,   *)
(* its query encoder (prepare_query), its request builder (send_request)   *)
(* and its streaming response decoder (handle_response).                   *)
(*                                                                         *)
(* Text is modelled as a sequence of one-character strings, so that        *)
(* str.replace, the `in` substring test and JSON decoding act on the       *)
(* characters, as they do in the program.                                  *)
(***************************************************************************)
EXTENDS Naturals, Sequences, FiniteSets

VARIABLES
    \* --- the client object and its one public call (Spec) ---
    pc,             \* "new" | "constructed" | "rejected"
    config,         \* self.config, as assigned by __init__
    err,            \* the exception that left the last call, or "none"
    request,        \* the HTTP request requests.get was last called with
    result,         \* the dictionary send_request last returned
    \* --- one run of handle_response, line by line (SpecStream) ---
    h_pc,           \* "idle" | "reading" | "done" | "raised"
    h_err,          \* the exception that left handle_response, or "none"
    prints,         \* self.config.prints
    response_dict,  \* the accumulator
    received,       \* the lines iter_lines has yielded so far
    value,          \* the loop variable after line 144 (the text given to json.loads)
    stdout,         \* what print has written
    \* --- prepare_query applied once and twice (SpecEnc) ---
    e_pc,           \* "idle" | "start" | "once" | "twice"
    e_query,        \* the argument
    e_once,         \* prepare_query(e_query)
    e_twice         \* prepare_query(prepare_query(e_query))

vars == <<pc, config, err, request, result,
          h_pc, h_err, prints, response_dict, received, value, stdout,
          e_pc, e_query, e_once, e_twice>>

clientVars == <<pc, config, err, request, result>>
streamVars == <<h_pc, h_err, prints, response_dict, received, value, stdout>>
encVars    == <<e_pc, e_query, e_once, e_twice>>

----------------------------------------------------------------------------
(* Bounds *)

\* the longest query given to prepare_query in SpecEnc
MaxQueryLen == 3
\* the most lines one response stream delivers in SpecStream
MaxLines == 3

----------------------------------------------------------------------------
(* Python's str operations *)

\* sub in s
Contains(s, sub) ==
    \E i \in 1..(Len(s) + 1) :
        /\ i + Len(sub) - 1 <= Len(s)
        /\ SubSeq(s, i, i + Len(sub) - 1) = sub

\* s.startswith(p)
StartsWith(s, p) == Len(p) <= Len(s) /\ SubSeq(s, 1, Len(p)) = p

\* s.replace(old, new) for a non-empty old: every non-overlapping occurrence,
\* found left to right, is replaced
RECURSIVE StrReplace(_, _, _)
StrReplace(s, old, new) ==
    IF Len(s) < Len(old) THEN s
    ELSE IF SubSeq(s, 1, Len(old)) = old
         THEN new \o StrReplace(SubSeq(s, Len(old) + 1, Len(s)), old, new)
         ELSE <<Head(s)>> \o StrReplace(Tail(s), old, new)

\* all strings over alphabet A of length at most n
RECURSIVE StringsUpTo(_, _)
StringsUpTo(A, n) ==
    IF n = 0 THEN {<<>>}
    ELSE LET shorter == StringsUpTo(A, n - 1)
         IN  shorter \cup {Append(s, c) : s \in shorter, c \in A}

----------------------------------------------------------------------------
(* prepare_query *)

\* the replacements dictionary, in insertion order (the order .items() yields)
replacements == <<
    <<" ",  <<"%", "2", "0">>>>,
    <<"?",  <<"%", "3", "F">>>>,
    <<"&",  <<"%", "2", "6">>>>,
    <<"\"", <<"%", "2", "2">>>>,
    <<"'",  <<"%", "2", "7">>>>,
    <<",",  <<"%", "2", "C">>>>,
    <<";",  <<"%", "3", "B">>>>,
    <<":",  <<"%", "3", "A">>>>,
    <<"/",  <<"%", "2", "F">>>>,
    <<"\\", <<"%", "5", "C">>>>,
    <<"|",  <<"%", "7", "C">>>>,
    <<"=",  <<"%", "3", "D">>>>,
    <<"+",  <<"%", "2", "B">>>> >>

\* the for loop of lines 113-114 over the items of table, from the k-th on:
\* one whole-string replace pass per item
RECURSIVE ReplaceFrom(_, _, _)
ReplaceFrom(table, query, k) ==
    IF k > Len(table) THEN query
    ELSE ReplaceFrom(table, StrReplace(query, <<table[k][1]>>, table[k][2]), k + 1)

\* prepare_query with the last item of the dictionary ('+') left out
prepare_query_without_plus(query) ==
    ReplaceFrom(SubSeq(replacements, 1, Len(replacements) - 1), query, 1)

\* prepare_query with a closing pass that escapes '%' as well
prepare_query_escaping_percent(query) ==
    ReplaceFrom(Append(replacements, <<"%", <<"%", "2", "5">>>>), query, 1)

prepare_query(query) == ReplaceFrom(replacements, query, 1)

----------------------------------------------------------------------------
(* Python objects as json.loads builds them.  Every object is a record of   *)
(* one shape: t is its type, s its text (a str's characters, an int's        *)
(* digits, a dict item's key), items its members (a list's elements, a       *)
(* dict's items in insertion order, a dict item's one value).                *)

PyNone     == [t |-> "NoneType", s |-> <<>>, items |-> <<>>]
PyTrue     == [t |-> "bool", s |-> <<"1">>, items |-> <<>>]
PyFalse    == [t |-> "bool", s |-> <<"0">>, items |-> <<>>]
PyStr(s)   == [t |-> "str", s |-> s, items |-> <<>>]
PyInt(ds)  == [t |-> "int", s |-> ds, items |-> <<>>]
PyList(xs) == [t |-> "list", s |-> <<>>, items |-> xs]
PyDict(kv) == [t |-> "dict", s |-> <<>>, items |-> kv]
Item(k, v) == [t |-> "item", s |-> k, items |-> <<v>>]

\* bool(x): the truth value of an object
Truthy(x) ==
    CASE x.t = "NoneType" -> FALSE
      [] x.t = "bool" -> x.s = <<"1">>
      [] x.t = "str"  -> x.s # <<>>
      [] x.t = "int"  -> \E i \in 1..Len(x.s) : x.s[i] # "0"
      [] x.t = "list" -> x.items # <<>>
      [] x.t = "dict" -> x.items # <<>>

\* d[k] = v on the items of a dict: a key already there keeps its place
SetItem(kv, k, v) ==
    IF \E i \in 1..Len(kv) : kv[i].s = k
    THEN [i \in 1..Len(kv) |-> IF kv[i].s = k THEN Item(k, v) ELSE kv[i]]
    ELSE Append(kv, Item(k, v))

\* d.get(k): the value under k, None when k is not a key
Get(d, k) ==
    IF \E i \in 1..Len(d.items) : d.items[i].s = k
    THEN d.items[CHOOSE i \in 1..Len(d.items) : d.items[i].s = k].items[1]
    ELSE PyNone

----------------------------------------------------------------------------
(* json.loads, for the JSON texts the model's lines can hold: objects,       *)
(* arrays, strings without escape sequences, unsigned integers, true, false  *)
(* and null, with spaces allowed between tokens.  ok = FALSE is              *)
(* json.JSONDecodeError.                                                     *)

Digits == {"0", "1", "2", "3", "4", "5", "6", "7", "8", "9"}

DecodeError == [ok |-> FALSE, v |-> PyNone, i |-> 0]
Decoded(v, i) == [ok |-> TRUE, v |-> v, i |-> i]

RECURSIVE SkipWs(_, _)
SkipWs(s, i) == IF i <= Len(s) /\ s[i] = " " THEN SkipWs(s, i + 1) ELSE i

\* the index of the first character c at or after i, 0 when there is none
RECURSIVE IndexFrom(_, _, _)
IndexFrom(s, c, i) ==
    IF i > Len(s) THEN 0
    ELSE IF s[i] = c THEN i ELSE IndexFrom(s, c, i + 1)

\* the index after the last digit of the run of digits starting at i
RECURSIVE DigitsEnd(_, _)
DigitsEnd(s, i) ==
    IF i <= Len(s) /\ s[i] \in Digits THEN DigitsEnd(s, i + 1) ELSE i

\* a string whose opening quote is at i
ParseString(s, i) ==
    LET close == IndexFrom(s, "\"", i + 1)
    IN  IF close = 0 THEN DecodeError
        ELSE Decoded(PyStr(SubSeq(s, i + 1, close - 1)), close + 1)

\* the literal word w standing for the object v, at i
ParseWord(s, i, w, v) ==
    IF i + Len(w) - 1 <= Len(s) /\ SubSeq(s, i, i + Len(w) - 1) = w
    THEN Decoded(v, i + Len(w))
    ELSE DecodeError

\* a number at i: 0, or a run of digits that does not start with 0
ParseNumber(s, i) ==
    LET end == IF s[i] = "0" THEN i + 1 ELSE DigitsEnd(s, i)
    IN  Decoded(PyInt(SubSeq(s, i, end - 1)), end)

RECURSIVE ParseValue(_, _), ParseElements(_, _, _), ParseMembers(_, _, _)

\* the value that starts at i (leading spaces already skipped)
ParseValue(s, i) ==
    IF i > Len(s) THEN DecodeError
    ELSE CASE s[i] = "\"" -> ParseString(s, i)
           [] s[i] = "{" ->
                LET j == SkipWs(s, i + 1)
                IN  IF j <= Len(s) /\ s[j] = "}"
                    THEN Decoded(PyDict(<<>>), j + 1)
                    ELSE ParseMembers(s, j, <<>>)
           [] s[i] = "[" ->
                LET j == SkipWs(s, i + 1)
                IN  IF j <= Len(s) /\ s[j] = "]"
                    THEN Decoded(PyList(<<>>), j + 1)
                    ELSE ParseElements(s, j, <<>>)
           [] s[i] = "t" -> ParseWord(s, i, <<"t", "r", "u", "e">>, PyTrue)
           [] s[i] = "f" -> ParseWord(s, i, <<"f", "a", "l", "s", "e">>, PyFalse)
           [] s[i] = "n" -> ParseWord(s, i, <<"n", "u", "l", "l">>, PyNone)
           [] s[i] \in Digits -> ParseNumber(s, i)
           [] OTHER -> DecodeError

\* the elements of an array from the one at i on, xs being those before it
ParseElements(s, i, xs) ==
    LET r == ParseValue(s, i)
        j == SkipWs(s, r.i)
    IN  IF ~r.ok \/ j > Len(s) THEN DecodeError
        ELSE IF s[j] = "," THEN ParseElements(s, SkipWs(s, j + 1), Append(xs, r.v))
        ELSE IF s[j] = "]" THEN Decoded(PyList(Append(xs, r.v)), j + 1)
        ELSE DecodeError

\* the members of an object from the one at i on, kv being those before it
ParseMembers(s, i, kv) ==
    IF i > Len(s) \/ s[i] # "\"" THEN DecodeError
    ELSE
    LET k == ParseString(s, i)
        c == SkipWs(s, k.i)
    IN  IF ~k.ok \/ c > Len(s) \/ s[c] # ":" THEN DecodeError
        ELSE
        LET r == ParseValue(s, SkipWs(s, c + 1))
            j == SkipWs(s, r.i)
        IN  IF ~r.ok \/ j > Len(s) THEN DecodeError
            ELSE IF s[j] = ","
                 THEN ParseMembers(s, SkipWs(s, j + 1), SetItem(kv, k.v.s, r.v))
            ELSE IF s[j] = "}"
                 THEN Decoded(PyDict(SetItem(kv, k.v.s, r.v)), j + 1)
            ELSE DecodeError

\* json.loads(s): the one value of the text, nothing but spaces around it
json_loads(s) ==
    LET r == ParseValue(s, SkipWs(s, 1))
    IN  IF r.ok /\ SkipWs(s, r.i) = Len(s) + 1 THEN r ELSE DecodeError

----------------------------------------------------------------------------
(* The enumerations and the configuration *)

\* a member of an Enum class, an object with a name and a value
Member(cls, name, val) == [cls |-> cls, name |-> name, value |-> val]

\* class AIModelEnum
AIModelEnum ==
    {Member("AIModelEnum", m[1], m[2]) : m \in {
      <<"OPENAI_O1", "openai_o1">>,
      <<"OPENAI_O1_PREVIEW", "openai_o1_preview">>,
      <<"OPENAI_O1_MINI", "openai_o1_mini">>,
      <<"GPT_4O_MINI", "gpt_4o_mini">>,
      <<"GPT_4O", "gpt_4o">>,
      <<"GPT_4_TURBO", "gpt_4_turbo">>,
      <<"GPT_4", "gpt_4">>,
      <<"GROK_2", "grok_2">>,
      <<"CLAUDE_3_5_SONNET", "claude_3_5_sonnet">>,
      <<"CLAUDE_3_OPUS", "claude_3_opus">>,
      <<"CLAUDE_3_SONNET", "claude_3_sonnet">>,
      <<"CLAUDE_3_5_HAIKU", "claude_3_5_haiku">>,
      <<"CLAUDE_3_HAIKU", "claude_3_haiku">>,
      <<"LLAMA_3_3_70B", "llama3_3_70b">>,
      <<"LLAMA_3_2_90B", "llama3_2_90b">>,
      <<"LLAMA_3_2_11B", "llama3_2_11b">>,
      <<"LLAMA_3_1_405B", "llama3_1_405b">>,
      <<"LLAMA_3_1_70B", "llama3_1_70b">>,
      <<"LLAMA_3", "llama3">>,
      <<"MISTRAL_LARGE_2", "mistral_large_2">>,
      <<"GEMINI_1_5_FLASH", "gemini_1_5_flash">>,
      <<"GEMINI_1_5_PRO", "gemini_1_5_pro">>,
      <<"DBRX_INSTRUCT", "databricks_dbrx_instruct">>,
      <<"QWEN2_5_72B", "qwen2p5_72b">>,
      <<"QWEN2_5_CODER_32B", "qwen2p5_coder_32b">>,
      <<"COMMAND_R", "command_r">>,
      <<"COMMAND_R_PLUS", "command_r_plus">>,
      <<"SOLAR_1_MINI", "solar_1_mini">>,
      <<"DOLPHIN_2_5", "dolphin_2_5">> }}

\* class ChatModeEnum
ChatModeEnum ==
    {Member("ChatModeEnum", m[1], m[2]) : m \in
        {<<"CUSTOM", "custom">>, <<"RESEARCH", "research">>, <<"DEFAULT", "default">>}}

GPT_4O == Member("AIModelEnum", "GPT_4O", "gpt_4o")
DEFAULT == Member("ChatModeEnum", "DEFAULT", "default")

\* objects that are members of neither enumeration: a str (here its text is
\* kept in the value field; a str has no attribute value) and None
StrObject(text) == [cls |-> "str", name |-> "", value |-> text]
NoneObject == [cls |-> "NoneType", name |-> "", value |-> ""]

\* isinstance(x, cls)
IsInstance(x, cls) == x.cls = cls

\* x.value is defined: x is a member of an Enum
HasValue(x) == x.cls \in {"AIModelEnum", "ChatModeEnum"}

\* YouChatConfig(model, chat_mode, query, prints)
YouChatConfig(model, chat_mode, query, p) ==
    [model |-> model, chat_mode |-> chat_mode, query |-> query, prints |-> p]

\* validate_configuration with its two checks in the other order
validate_chat_mode_first(cfg) ==
    IF ~IsInstance(cfg.chat_mode, "ChatModeEnum") THEN "ChatModeNotAvailableError"
    ELSE IF ~IsInstance(cfg.model, "AIModelEnum") THEN "ModelNotAvailableError"
    ELSE "none"

\* validate_configuration: the exception it raises, "none" when it returns
validate_configuration(cfg) ==
    IF ~IsInstance(cfg.model, "AIModelEnum") THEN "ModelNotAvailableError"
    ELSE IF ~IsInstance(cfg.chat_mode, "ChatModeEnum") THEN "ChatModeNotAvailableError"
    ELSE "none"

\* "What is current AQI in New Delhi?", the query of main
MainQuery ==
    <<"W", "h", "a", "t", " ", "i", "s", " ", "c", "u", "r", "r", "e", "n",
      "t", " ", "A", "Q", "I", " ", "i", "n", " ", "N", "e", "w", " ", "D",
      "e", "l", "h", "i", "?">>

\* the configuration main builds
MainConfig == YouChatConfig(GPT_4O, DEFAULT, MainQuery, TRUE)

\* response_dict = {'streaming_response': ''}.  A key the dictionary may lack
\* holds <<>> while it is absent and <<v>> once it is set to v.
NewResponseDict ==
    [streaming_response |-> <<>>, relatedSearches |-> <<>>, query |-> <<>>]

----------------------------------------------------------------------------
(* The parts of the state a specification leaves alone *)

ClientIdle ==
    /\ pc = "idle" /\ config = MainConfig /\ err = "none"
    /\ request = <<>> /\ result = <<>>

StreamIdle ==
    /\ h_pc = "idle" /\ h_err = "none" /\ prints = FALSE
    /\ response_dict = NewResponseDict
    /\ received = <<>> /\ value = <<>> /\ stdout = <<>>

EncIdle ==
    /\ e_pc = "idle" /\ e_query = <<>> /\ e_once = <<>> /\ e_twice = <<>>

----------------------------------------------------------------------------
(* handle_response *)

\* the keys handle_response looks up
K_relatedSearches ==
    <<"r", "e", "l", "a", "t", "e", "d", "S", "e", "a", "r", "c", "h", "e",
      "s">>
K_query == <<"q", "u", "e", "r", "y">>
K_youChatToken == <<"y", "o", "u", "C", "h", "a", "t", "T", "o", "k", "e", "n">>

\* 'data: ' and 'event:'
DataPrefix == <<"d", "a", "t", "a", ":", " ">>
EventTag == <<"e", "v", "e", "n", "t", ":">>

\* `if x:` with the test reading `if x is not None:`
TruthyIfNotNone(x) == x.t # "NoneType"

\* `if related_searches:`, `if query:`, `if you_chat_token:`
IsTrue(x) == Truthy(x)

\* the update with the new list joined to the one already there
UpdateRelatedMerging(rd, related_searches) ==
    IF rd.relatedSearches = <<>> \/ related_searches.t # "list"
    THEN [rd EXCEPT !.relatedSearches = <<related_searches>>]
    ELSE [rd EXCEPT !.relatedSearches =
              <<PyList(rd.relatedSearches[1].items \o related_searches.items)>>]

\* response_dict.update({'relatedSearches': related_searches})
UpdateRelated(rd, related_searches) ==
    [rd EXCEPT !.relatedSearches = <<related_searches>>]

\* the update storing the value of the query field
UpdateQueryWithField(rd, item) == [rd EXCEPT !.query = <<Get(item, K_query)>>]

\* response_dict.update({'query': item})
UpdateQuery(rd, item) == [rd EXCEPT !.query = <<item>>]

\* the concatenation with its operands swapped
ConcatSwapped(text, content) == content \o text

\* response_dict['streaming_response'] += content, for a str content
Concat(text, content) == text \o content

\* The body run for one dict (lines 153-166 for an item of a list, and the
\* same statements at lines 169-182 for a frame that is a dict), on the loop
\* state st = [rd: response_dict, out: what was printed, raised: whether an
\* exception is propagating].  str += a content that is no str raises
\* TypeError, which the except clause of line 183 does not catch.
HandleObject(st, item, p) ==
    LET related_searches == Get(item, K_relatedSearches)
        query == Get(item, K_query)
        you_chat_token == Get(item, K_youChatToken)
        rd1 == IF IsTrue(related_searches)
               THEN UpdateRelated(st.rd, related_searches) ELSE st.rd
        rd2 == IF IsTrue(query) THEN UpdateQuery(rd1, item) ELSE rd1
    IN  IF ~IsTrue(you_chat_token)
        THEN [st EXCEPT !.rd = rd2]
        ELSE IF you_chat_token.t # "str"
        THEN [st EXCEPT !.rd = rd2, !.raised = TRUE]
        ELSE [st EXCEPT
                 !.rd = [rd2 EXCEPT !.streaming_response = Concat(@, you_chat_token.s)],
                 !.out = IF p THEN @ \o you_chat_token.s ELSE @]

\* for item in json_value (lines 151-166), from the k-th item on
RECURSIVE HandleItems(_, _, _, _)
HandleItems(st, items, k, p) ==
    IF k > Len(items) \/ st.raised THEN st
    ELSE HandleItems(IF items[k].t = "dict" THEN HandleObject(st, items[k], p) ELSE st,
                     items, k + 1, p)

\* the test of line 143
Skipped(line) == line = <<>> \/ Contains(line, EventTag)

\* value = value.replace('data: ', '')
StripData(line) == StrReplace(line, DataPrefix, <<>>)

\* One iteration of the for loop of line 142, on the loop state
\* st = [rd, out, raised, value] and the line iter_lines yields.
HandleLine(st, line, p) ==
    IF Skipped(line) THEN [st EXCEPT !.value = line]
    ELSE
    LET text == StripData(line)
        json_value == json_loads(text)
        st1 == [st EXCEPT !.value = text]
    IN  IF ~json_value.ok THEN st1
        ELSE IF json_value.v.t = "list" THEN HandleItems(st1, json_value.v.items, 1, p)
        ELSE IF json_value.v.t = "dict" THEN HandleObject(st1, json_value.v, p)
        ELSE st1

NewLoopState ==
    [rd |-> NewResponseDict, out |-> <<>>, raised |-> FALSE, value |-> <<>>]

\* handle_response on a whole response: the loop over its lines from the
\* k-th on, which an exception ends
RECURSIVE HandleLines(_, _, _, _)
HandleLines(st, lines, k, p) ==
    IF k > Len(lines) \/ st.raised THEN st
    ELSE HandleLines(HandleLine(st, lines[k], p), lines, k + 1, p)

handle_response(lines, p) == HandleLines(NewLoopState, lines, 1, p)

----------------------------------------------------------------------------
(* The lines a response stream is made of *)

\* (empty)   -- a blank line (the separator between server-sent events)
BlankLine ==
    <<>>

\* event: youChatToken   -- an event-type marker
EventLine ==
    <<"e", "v", "e", "n", "t", ":", " ", "y", "o", "u", "C", "h", "a", "t",
      "T", "o", "k", "e", "n">>

\* data: {"youChatToken":"Hel"}
TokenHel ==
    <<"d", "a", "t", "a", ":", " ", "{", "\"", "y", "o", "u", "C", "h", "a",
      "t", "T", "o", "k", "e", "n", "\"", ":", "\"", "H", "e", "l", "\"",
      "}">>

\* data: {"youChatToken":"lo"}
TokenLo ==
    <<"d", "a", "t", "a", ":", " ", "{", "\"", "y", "o", "u", "C", "h", "a",
      "t", "T", "o", "k", "e", "n", "\"", ":", "\"", "l", "o", "\"", "}">>

\* data: [{"relatedSearches":["a","b"]}]
RelatedAB ==
    <<"d", "a", "t", "a", ":", " ", "[", "{", "\"", "r", "e", "l", "a", "t",
      "e", "d", "S", "e", "a", "r", "c", "h", "e", "s", "\"", ":", "[",
      "\"", "a", "\"", ",", "\"", "b", "\"", "]", "}", "]">>

\* data: {"relatedSearches":["c"]}
RelatedC ==
    <<"d", "a", "t", "a", ":", " ", "{", "\"", "r", "e", "l", "a", "t", "e",
      "d", "S", "e", "a", "r", "c", "h", "e", "s", "\"", ":", "[", "\"",
      "c", "\"", "]", "}">>

\* {"query":"q","relatedSearches":["d"],"youChatToken":"!"}
\*    -- an object that carries the three recognized fields, with no data: prefix
AllThree ==
    <<"{", "\"", "q", "u", "e", "r", "y", "\"", ":", "\"", "q", "\"", ",",
      "\"", "r", "e", "l", "a", "t", "e", "d", "S", "e", "a", "r", "c", "h",
      "e", "s", "\"", ":", "[", "\"", "d", "\"", "]", ",", "\"", "y", "o",
      "u", "C", "h", "a", "t", "T", "o", "k", "e", "n", "\"", ":", "\"",
      "!", "\"", "}">>

\* data: [7,{"youChatToken":"x","query":{"q":1}},{"youChatToken":"y"}]   -- a list of a number and two objects
ListOfTwo ==
    <<"d", "a", "t", "a", ":", " ", "[", "7", ",", "{", "\"", "y", "o", "u",
      "C", "h", "a", "t", "T", "o", "k", "e", "n", "\"", ":", "\"", "x",
      "\"", ",", "\"", "q", "u", "e", "r", "y", "\"", ":", "{", "\"", "q",
      "\"", ":", "1", "}", "}", ",", "{", "\"", "y", "o", "u", "C", "h",
      "a", "t", "T", "o", "k", "e", "n", "\"", ":", "\"", "y", "\"", "}",
      "]">>

\* data: {"other":"x"}   -- an object with none of the recognized fields
NothingRecognized ==
    <<"d", "a", "t", "a", ":", " ", "{", "\"", "o", "t", "h", "e", "r",
      "\"", ":", "\"", "x", "\"", "}">>

\* data: {"youChatToken":"","relatedSearches":[],"query":null}   -- the recognized fields, each with a falsy value
AllFalsy ==
    <<"d", "a", "t", "a", ":", " ", "{", "\"", "y", "o", "u", "C", "h", "a",
      "t", "T", "o", "k", "e", "n", "\"", ":", "\"", "\"", ",", "\"", "r",
      "e", "l", "a", "t", "e", "d", "S", "e", "a", "r", "c", "h", "e", "s",
      "\"", ":", "[", "]", ",", "\"", "q", "u", "e", "r", "y", "\"", ":",
      "n", "u", "l", "l", "}">>

\* data: {"youChatToken":"Hel   -- a frame cut short: not JSON
PartialFrame ==
    <<"d", "a", "t", "a", ":", " ", "{", "\"", "y", "o", "u", "C", "h", "a",
      "t", "T", "o", "k", "e", "n", "\"", ":", "\"", "H", "e", "l">>

\* data: 7   -- a JSON value that is neither a list nor an object
Scalar ==
    <<"d", "a", "t", "a", ":", " ", "7">>

\* data: [{"relatedSearches":["e"],"youChatToken":1},{"query":"r","youChatToken":"z"}]
\*    -- a list whose first object has a youChatToken that is a number
TokenNumber ==
    <<"d", "a", "t", "a", ":", " ", "[", "{", "\"", "r", "e", "l", "a", "t",
      "e", "d", "S", "e", "a", "r", "c", "h", "e", "s", "\"", ":", "[",
      "\"", "e", "\"", "]", ",", "\"", "y", "o", "u", "C", "h", "a", "t",
      "T", "o", "k", "e", "n", "\"", ":", "1", "}", ",", "{", "\"", "q",
      "u", "e", "r", "y", "\"", ":", "\"", "r", "\"", ",", "\"", "y", "o",
      "u", "C", "h", "a", "t", "T", "o", "k", "e", "n", "\"", ":", "\"",
      "z", "\"", "}", "]">>

\* data: {"youChatToken":"see data: here"}   -- a token whose text holds the characters of the prefix
TokenInnerData ==
    <<"d", "a", "t", "a", ":", " ", "{", "\"", "y", "o", "u", "C", "h", "a",
      "t", "T", "o", "k", "e", "n", "\"", ":", "\"", "s", "e", "e", " ",
      "d", "a", "t", "a", ":", " ", "h", "e", "r", "e", "\"", "}">>

\* data: {"youChatToken":"the event: x"}   -- a token whose text holds the characters of the event tag
TokenInnerEvent ==
    <<"d", "a", "t", "a", ":", " ", "{", "\"", "y", "o", "u", "C", "h", "a",
      "t", "T", "o", "k", "e", "n", "\"", ":", "\"", "t", "h", "e", " ",
      "e", "v", "e", "n", "t", ":", " ", "x", "\"", "}">>

Lines ==
    {BlankLine, EventLine, TokenHel, TokenLo, RelatedAB, RelatedC, AllThree,
     ListOfTwo, NothingRecognized, AllFalsy, PartialFrame, Scalar,
     TokenNumber, TokenInnerData, TokenInnerEvent}

----------------------------------------------------------------------------
(* SpecStream: one run of handle_response, a line at a time *)

InitStream ==
    /\ ClientIdle
    /\ EncIdle
    /\ h_pc = "reading"
    /\ h_err = "none"
    /\ prints \in BOOLEAN
    /\ response_dict = NewResponseDict
    /\ received = <<>>
    /\ value = <<>>
    /\ stdout = <<>>

\* iter_lines yields a line and the body of the loop runs on it
ProcessLine ==
    /\ h_pc = "reading"
    /\ Len(received) < MaxLines
    /\ \E line \in Lines :
        LET st == HandleLine([rd |-> response_dict, out |-> stdout,
                              raised |-> FALSE, value |-> value], line, prints)
        IN  /\ received' = Append(received, line)
            /\ response_dict' = st.rd
            /\ stdout' = st.out
            /\ value' = st.value
            /\ h_pc' = IF st.raised THEN "raised" ELSE "reading"
            /\ h_err' = IF st.raised THEN "TypeError" ELSE "none"
    /\ UNCHANGED <<prints, clientVars, encVars>>

\* iter_lines is exhausted: return response_dict
EndOfStream ==
    /\ h_pc = "reading"
    /\ h_pc' = "done"
    /\ UNCHANGED <<h_err, prints, response_dict, received, value, stdout,
                   clientVars, encVars>>

\* iter_lines raises (the connection is reset, a read times out)
TransportError ==
    /\ h_pc = "reading"
    /\ h_pc' = "raised"
    /\ h_err' = "TransportError"
    /\ UNCHANGED <<prints, response_dict, received, value, stdout,
                   clientVars, encVars>>

NextStream == ProcessLine \/ EndOfStream \/ TransportError

SpecStream == InitStream /\ [][NextStream]_vars

----------------------------------------------------------------------------
(* Spec: a configuration is built, YouChat is constructed from it, and       *)
(* send_request is called on the object                                      *)

\* the arguments a caller may give for model and chat_mode: every member of
\* the enumeration, a member of the other enumeration, a str, None
ModelArgs == AIModelEnum \cup {DEFAULT, StrObject("gpt_4o"), NoneObject}
ChatModeArgs == ChatModeEnum \cup {GPT_4O, StrObject("default"), NoneObject}

Queries == {<<>>, MainQuery}

Configs ==
    {YouChatConfig(m, c, q, p) :
        m \in ModelArgs, c \in ChatModeArgs, q \in Queries, p \in BOOLEAN}

\* the configurations send_request is called with besides self.config
OtherConfigs ==
    {YouChatConfig(Member("AIModelEnum", "CLAUDE_3_OPUS", "claude_3_opus"),
                   Member("ChatModeEnum", "RESEARCH", "research"), <<>>, TRUE),
     YouChatConfig(DEFAULT, GPT_4O, <<>>, TRUE),
     YouChatConfig(StrObject("gpt_4o"), DEFAULT, <<>>, TRUE),
     YouChatConfig(GPT_4O, NoneObject, <<>>, TRUE)}

\* what the server answers: refused is requests.get raising; otherwise the
\* lines iter_lines yields, after which it raises if broken and ends if not
Response(refused, lines, broken) ==
    [refused |-> refused, lines |-> lines, broken |-> broken]

Responses ==
    {Response(TRUE, <<>>, FALSE),
     Response(FALSE, <<TokenHel, EventLine, TokenLo>>, FALSE),
     Response(FALSE, <<RelatedAB, AllThree>>, FALSE),
     Response(FALSE, <<TokenHel, TokenNumber, TokenLo>>, FALSE),
     Response(FALSE, <<TokenHel>>, TRUE)}

\* prepare_query and handle_response on the arguments above, as tables
Encoded == [query \in Queries |-> prepare_query(query)]
Handled == [resp \in Responses, p \in BOOLEAN |-> handle_response(resp.lines, p)]

Init ==
    /\ StreamIdle
    /\ EncIdle
    /\ pc = "configured"
    /\ config \in Configs
    /\ err = "none"
    /\ request = <<>>
    /\ result = <<>>

\* YouChat(config): __init__ stores the configuration and validates it
Construct ==
    /\ pc = "configured"
    /\ err' = validate_configuration(config)
    /\ pc' = IF err' = "none" THEN "constructed" ELSE "rejected"
    /\ UNCHANGED <<config, request, result, streamVars, encVars>>

\* the request requests.get is called with: the ai_model cookie, and the
\* selectedChatMode, selectedAiModel and q parameters of the URL (the other
\* cookies and parameters are constants and fresh random identifiers)
HttpRequest(query, cfg) ==
    [ai_model |-> cfg.model.value,
     selectedChatMode |-> cfg.chat_mode.value,
     selectedAiModel |-> cfg.model.value,
     q |-> Encoded[query]]

\* youchat.send_request(query, cfg), the server answering with resp
SendRequest ==
    /\ pc = "constructed"
    /\ \E query \in Queries, cfg \in OtherConfigs \cup {config}, resp \in Responses :
        IF ~HasValue(cfg.model) \/ ~HasValue(cfg.chat_mode)
        THEN \* config.model.value or config.chat_mode.value raises
             /\ err' = "AttributeError"
             /\ result' = <<>>
             /\ UNCHANGED <<request, stdout>>
        ELSE /\ request' = <<HttpRequest(query, cfg)>>
             /\ IF resp.refused
                THEN /\ err' = "TransportError"
                     /\ result' = <<>>
                     /\ UNCHANGED stdout
                ELSE LET st == Handled[resp, config.prints]
                     IN  /\ stdout' = st.out
                         /\ err' = IF st.raised THEN "TypeError"
                                   ELSE IF resp.broken THEN "TransportError"
                                   ELSE "none"
                         /\ result' = IF err' = "none" THEN <<st.rd>> ELSE <<>>
    /\ UNCHANGED <<pc, config, h_pc, h_err, prints, response_dict, received,
                   value, encVars>>

Next == Construct \/ SendRequest

Spec == Init /\ [][Next]_vars

----------------------------------------------------------------------------
(* Claims about validation and the request, stated for Spec *)

Validated == pc \in {"constructed", "rejected"}
Rejected(e) == pc = "rejected" /\ err = e

\* C2 as stated: validation succeeds when the model and the chat mode are
\* members of their sets, whatever the query; it fails with the model error
\* when the model is outside its set, and with the chat-mode error when the
\* chat mode is outside its set.
C2_AsStated ==
    Validated =>
        /\ (config.model \in AIModelEnum /\ config.chat_mode \in ChatModeEnum
               => pc = "constructed")
        /\ (config.model \notin AIModelEnum => Rejected("ModelNotAvailableError"))
        /\ (config.chat_mode \notin ChatModeEnum
               => Rejected("ChatModeNotAvailableError"))

\* C2, amended: validation succeeds when the model and the chat mode are
\* members of their sets, whatever the query; it fails with the model error
\* when the model is outside its set, and with the chat-mode error when the
\* chat mode is outside its set and the model is inside its own.
C2_ValidationOutcome ==
    Validated =>
        /\ (config.model \in AIModelEnum /\ config.chat_mode \in ChatModeEnum
               => pc = "constructed")
        /\ (config.model \notin AIModelEnum => Rejected("ModelNotAvailableError"))
        /\ (config.model \in AIModelEnum /\ config.chat_mode \notin ChatModeEnum
               => Rejected("ChatModeNotAvailableError"))

\* a configuration with an empty query, a supported model and a chat mode
\* outside the set has been rejected
C2_Witness ==
    /\ Rejected("ChatModeNotAvailableError")
    /\ config.model \in AIModelEnum
    /\ config.chat_mode = StrObject("default")
    /\ config.query = <<>>

\* the tags of the two closed sets
ModelTags == {m.value : m \in AIModelEnum}
ChatModeTags == {m.value : m \in ChatModeEnum}

\* C3: no request is issued whose model or chat mode lies outside the closed
\* sets: every such value in the URL or the cookie of a request is a tag of
\* its set.
C3_RequestsCarryOnlyValidatedValues ==
    request # <<>> =>
        /\ request[1].ai_model \in ModelTags
        /\ request[1].selectedAiModel \in ModelTags
        /\ request[1].selectedChatMode \in ChatModeTags

----------------------------------------------------------------------------
(* Claims about handle_response, stated for SpecStream on the history of    *)
(* the stream: the lines received so far, and the objects those lines carry. *)

Last(s) == s[Len(s)]

\* the elements of xs that are dicts, in order
RECURSIVE DictsOf(_)
DictsOf(xs) ==
    IF xs = <<>> THEN <<>>
    ELSE (IF Head(xs).t = "dict" THEN <<Head(xs)>> ELSE <<>>) \o DictsOf(Tail(xs))

\* The objects of each line: none for a blank line, a line with an event:
\* tag and a line whose text is not JSON; the object itself for a frame that
\* is an object; the objects of the list, in list order, for a frame that is
\* a list.  The JSON text of a line is the text the handler decodes.
FrameObjects ==
    [line \in Lines |->
        IF line = <<>> \/ Contains(line, EventTag) THEN <<>>
        ELSE LET j == json_loads(StripData(line))
             IN  IF ~j.ok THEN <<>>
                 ELSE IF j.v.t = "dict" THEN <<j.v>>
                 ELSE IF j.v.t = "list" THEN DictsOf(j.v.items)
                 ELSE <<>>]

\* the objects of a sequence of lines, in arrival order
RECURSIVE ObjectsOf(_)
ObjectsOf(lines) ==
    IF lines = <<>> THEN <<>>
    ELSE ObjectsOf(SubSeq(lines, 1, Len(lines) - 1)) \o FrameObjects[Last(lines)]

\* an object whose youChatToken is truthy and is not text
TokenIsNotText(o) ==
    Truthy(Get(o, K_youChatToken)) /\ Get(o, K_youChatToken).t # "str"

\* objs up to and with its first object whose token is not text: the loop
\* body fails on that object after handling its other fields, and no object
\* after it is processed
RECURSIVE UpToFailure(_)
UpToFailure(objs) ==
    IF objs = <<>> THEN <<>>
    ELSE IF TokenIsNotText(Head(objs)) THEN <<Head(objs)>>
    ELSE <<Head(objs)>> \o UpToFailure(Tail(objs))

\* the objects processed so far, in arrival order
Processed == UpToFailure(ObjectsOf(received))

\* the concatenation, in order, of the truthy youChatToken texts of objs
RECURSIVE TokenText(_)
TokenText(objs) ==
    IF objs = <<>> THEN <<>>
    ELSE (IF Truthy(Get(Head(objs), K_youChatToken)) /\ ~TokenIsNotText(Head(objs))
          THEN Get(Head(objs), K_youChatToken).s ELSE <<>>)
         \o TokenText(Tail(objs))

\* the last object of objs whose field k is truthy: <<>> when there is none,
\* <<object>> otherwise
RECURSIVE LastWith(_, _)
LastWith(objs, k) ==
    IF objs = <<>> THEN <<>>
    ELSE IF Truthy(Get(Last(objs), k)) THEN <<Last(objs)>>
    ELSE LastWith(SubSeq(objs, 1, Len(objs) - 1), k)

Hello == <<"H", "e", "l", "l", "o">>

C4_OnlyTransportErrorsAbort == h_pc = "raised" => h_err = "TransportError"

\* a line carries no recognized payload: it is blank, holds an event: tag,
\* is not JSON, or is JSON none of whose objects has a truthy
\* relatedSearches, query or youChatToken
NoPayload ==
    [line \in Lines |->
        \A i \in 1..Len(FrameObjects[line]) :
            \A k \in {K_relatedSearches, K_query, K_youChatToken} :
                ~Truthy(Get(FrameObjects[line][i], k))]

\* C5: processing a line that carries no recognized payload leaves the
\* accumulator (streaming_response, query, relatedSearches) as it was.
C5_NoPayloadLeavesAccumulator ==
    [][(Len(received') = Len(received) + 1 /\ NoPayload[Last(received')])
          => response_dict' = response_dict]_vars

\* the frames "Hel" and "lo" with a cut-short frame between them still give
\* "Hello"
C5_Witness ==
    /\ h_pc = "done"
    /\ received = <<TokenHel, PartialFrame, TokenLo>>
    /\ response_dict.streaming_response = Hello

\* C6: relatedSearches is the relatedSearches value of the last processed
\* object that carried a truthy one, and is absent when there was none.
C6_RelatedSearchesLastWriteWins ==
    LET o == LastWith(Processed, K_relatedSearches)
    IN  response_dict.relatedSearches =
            IF o = <<>> THEN <<>> ELSE <<Get(o[1], K_relatedSearches)>>

\* after the list frame ["a","b"] and the object frame ["c"], the field is ["c"]
C6_Witness ==
    /\ h_pc = "done"
    /\ received = <<RelatedAB, RelatedC>>
    /\ response_dict.relatedSearches = <<PyList(<<PyStr(<<"c">>)>>)>>

\* C9: query is the whole object of the last processed object that carried a
\* truthy query field, and is absent when there was none; an object with
\* several recognized fields updates each of them in the same step.
C9_QueryIsLastWholeObject ==
    /\ response_dict.query = LastWith(Processed, K_query)
    /\ (received # <<>> /\ Last(received) = AllThree =>
           /\ response_dict.query = FrameObjects[AllThree]
           /\ response_dict.relatedSearches = <<PyList(<<PyStr(<<"d">>)>>)>>
           /\ Len(response_dict.streaming_response) > 0
           /\ Last(response_dict.streaming_response) = "!")

\* a query-bearing object inside a list replaced the one stored before it,
\* and the stored value is the object, not its query field
C9_Witness ==
    /\ h_pc = "done"
    /\ received = <<AllThree, ListOfTwo>>
    /\ Len(response_dict.query) = 1
    /\ response_dict.query[1].t = "dict"
    /\ Get(response_dict.query[1], K_youChatToken) = PyStr(<<"x">>)
    /\ response_dict.query[1] # Get(response_dict.query[1], K_query)

\* the line without a leading 'data: '
StripPrefix(line) ==
    IF StartsWith(line, DataPrefix)
    THEN SubSeq(line, Len(DataPrefix) + 1, Len(line)) ELSE line

\* C10: the text given to the JSON parser is the line without a leading
\* 'data: ' and otherwise the line, character for character.
C10_OnlyThePrefixIsStripped ==
    (received # <<>> /\ ~Skipped(Last(received))) =>
        value = StripPrefix(Last(received))

----------------------------------------------------------------------------
(* SpecEnc: prepare_query on every short query, applied once and again *)

\* the 13 characters prepare_query escapes
SpecialChars == {replacements[k][1] : k \in 1..Len(replacements)}

\* the characters queries are drawn from: the 13 escaped ones, '%', and
\* alphanumerics, among them ones the escapes are written with
QueryAlphabet == SpecialChars \cup {"%", "a", "2", "0"}

AlphaNumerics == {"a", "2", "0"}

QueryInputs == StringsUpTo(QueryAlphabet, MaxQueryLen)

InitEnc ==
    /\ ClientIdle
    /\ StreamIdle
    /\ e_pc = "start"
    /\ e_query \in QueryInputs
    /\ e_once = <<>>
    /\ e_twice = <<>>

\* query = self.prepare_query(query)
Encode ==
    /\ e_pc = "start"
    /\ e_once' = prepare_query(e_query)
    /\ e_pc' = "once"
    /\ UNCHANGED <<e_query, e_twice, clientVars, streamVars>>

\* the encoder applied to its own output
EncodeAgain ==
    /\ e_pc = "once"
    /\ e_twice' = prepare_query(e_once)
    /\ e_pc' = "twice"
    /\ UNCHANGED <<e_query, e_once, clientVars, streamVars>>

NextEnc == Encode \/ EncodeAgain

SpecEnc == InitEnc /\ [][NextEnc]_vars

----------------------------------------------------------------------------
(* Claims about prepare_query, stated for SpecEnc *)

\* the 13 characters the encoder's contract lists
Listed13 == {" ", "?", "&", "\"", "'", ",", ";", ":", "/", "\\", "|", "=", "+"}

\* the percent-escape of a listed character: '%' and the two hexadecimal
\* digits of its ASCII code
PercentEscape(c) ==
    CASE c = " "  -> <<"%", "2", "0">>
      [] c = "?"  -> <<"%", "3", "F">>
      [] c = "&"  -> <<"%", "2", "6">>
      [] c = "\"" -> <<"%", "2", "2">>
      [] c = "'"  -> <<"%", "2", "7">>
      [] c = ","  -> <<"%", "2", "C">>
      [] c = ";"  -> <<"%", "3", "B">>
      [] c = ":"  -> <<"%", "3", "A">>
      [] c = "/"  -> <<"%", "2", "F">>
      [] c = "\\" -> <<"%", "5", "C">>
      [] c = "|"  -> <<"%", "7", "C">>
      [] c = "="  -> <<"%", "3", "D">>
      [] c = "+"  -> <<"%", "2", "B">>

\* the single-pass reference: each character mapped on its own, in order
RECURSIVE SinglePass(_)
SinglePass(s) ==
    IF s = <<>> THEN <<>>
    ELSE (IF Head(s) \in Listed13 THEN PercentEscape(Head(s)) ELSE <<Head(s)>>)
         \o SinglePass(Tail(s))

CharsOf(s) == {s[i] : i \in 1..Len(s)}

\* C7: prepare_query is a per-character substitution: for every query its
\* output is the single-pass reference (each of the 13 listed characters
\* mapped to its percent-escape, every other character to itself, in order),
\* and the output holds none of the 13 characters.
C7_PerCharacterSubstitution ==
    e_pc \in {"once", "twice"} =>
        /\ e_once = SinglePass(e_query)
        /\ CharsOf(e_once) \cap Listed13 = {}

\* a query of three different listed characters has been encoded
C7_Witness ==
    /\ e_pc = "once"
    /\ e_query = <<":", " ", "+">>
    /\ e_once = <<"%", "3", "A", "%", "2", "0", "%", "2", "B">>

\* C8: prepare_query leaves a query without special characters as it is, and
\* for a query drawn from the 13 special characters and alphanumerics a
\* second pass changes nothing the first pass produced:
\* prepare_query(prepare_query(x)) = prepare_query(x).
C8_Idempotent ==
    e_pc = "twice" =>
        /\ (CharsOf(e_query) \cap Listed13 = {} =>
                e_once = e_query /\ e_twice = e_query)
        /\ (CharsOf(e_query) \subseteq Listed13 \cup AlphaNumerics =>
                e_twice = e_once)

\* an escape written by the first pass has gone through the second pass
C8_Witness ==
    /\ e_pc = "twice"
    /\ e_query = <<" ", "2", "0">>
    /\ e_once = <<"%", "2", "0", "2", "0">>
    /\ e_twice = e_once

====
